---- MODULE Spec2Model ----
(***************************************************************************)
(* A model of src/game.js (first copy of the game, lines 1-396): the       *)
(* silhouette extraction pipeline getVerticesFromImage and the event       *)
(* handlers of the stacking game around it.                                *)
(*                                                                         *)
(* Three specifications share the variables:                               *)
(*   Spec         the game: start, input, landing timers, image loads,     *)
(*                engine updates, game over, score saving;                 *)
(*   SpecExtract  one img.onload run, getVerticesFromImage executed one    *)
(*                loop iteration per step, over a bounded family of images;*)
(*   SpecSimplify the simplification loop of getVerticesFromImage alone,   *)
(*                over a bounded family of point sequences.                *)
(***************************************************************************)
EXTENDS Integers, Sequences, FiniteSets, TLC

VARIABLES
    gameStarted,   \* let gameStarted  (line 60)
    gameOver,      \* let gameOver     (line 58)
    score,         \* let score        (line 59)
    currentBody,   \* let currentBody  (line 56): a body id, or null
    isDropping,    \* let isDropping   (line 57)
    vertexCache,   \* const vertexCache = {} (line 43): asset -> entry
    bodies,        \* every body ever constructed, by id (1 is the ground)
    world,         \* ids of the bodies in the Composite `world`
    loads,         \* image loads in flight (new Image(), lines 172-175)
    timers,        \* pending landing timers (setTimeout, line 322), FIFO
    ranking,       \* localStorage['atb_ranking'] (lines 262-266)
    ui,            \* display state of overlay / buttons / score texts
    hist,          \* history: counters of calls, never read by the program
    frame          \* activation record of getVerticesFromImage

gameVars == <<gameStarted, gameOver, score, currentBody, isDropping,
              vertexCache, bodies, world, loads, timers, ranking, ui, hist>>
vars == <<gameStarted, gameOver, score, currentBody, isDropping,
          vertexCache, bodies, world, loads, timers, ranking, ui, hist, frame>>

----------------------------------------------------------------------------
(* Program constants *)

alphaThreshold == 10
samplingStep == 4
maxIterInit == 5000
minSegmentLength == 15
maxDim == 120
startY == 100
rankingSize == 5
timerDelay == 2000
height == 600
width == 800
null == 0

assets == <<"assets/1.png", "assets/2.png", "assets/4.png", "assets/5.png", "assets/6.png">>

----------------------------------------------------------------------------
(* Bounds of the model *)

GridCols == 3
MaxCells == 9
MaxRect == 21
MaxOff == 3
MaxPathLen == 4

----------------------------------------------------------------------------
(* Raster images.  An image is its width, its height and the opaque blocks  *)
(* painted on a fully transparent background; Alpha gives the alpha byte of *)
(* a pixel.                                                                 *)

Max2(a, b) == IF a >= b THEN a ELSE b
Min2(a, b) == IF a <= b THEN a ELSE b

SetMax(S) == CHOOSE m \in S : \A k \in S : k <= m

Block(x0, y0, x1, y1, a) == [x0 |-> x0, y0 |-> y0, x1 |-> x1, y1 |-> y1, alpha |-> a]

Image(w, h, blocks) == [width |-> w, height |-> h, blocks |-> blocks]

Alpha(img, x, y) ==
    LET hits == {b.alpha : b \in {c \in img.blocks :
                     c.x0 <= x /\ x <= c.x1 /\ c.y0 <= y /\ y <= c.y1}}
    IN IF hits = {} THEN 0 ELSE SetMax(hits)

(* ctx.getImageData(...).data: RGBA bytes, row-major; data[index] for the   *)
(* alpha byte of pixel number (index - 3) / 4.  Reading outside the array   *)
(* gives undefined, for which `undefined > alphaThreshold` is false: -1.    *)
Data(img, index) ==
    LET p == (index - 3) \div 4
    IN IF index < 0 \/ p >= img.width * img.height
       THEN -1
       ELSE Alpha(img, p % img.width, p \div img.width)

----------------------------------------------------------------------------
(* getVerticesFromImage (lines 75-160) *)

Null == [isNull |-> TRUE, pts |-> <<>>]
Some(s) == [isNull |-> FALSE, pts |-> s]

Pt(x, y) == [x |-> x, y |-> y]

(* getVal without the bounds test of line 88 *)
GetValNoBounds(img, x, y) ==
    IF Data(img, (y * img.width + x) * 4 + 3) > alphaThreshold THEN 1 ELSE 0

(* getVal comparing with >= instead of > *)
GetValAtLeast(img, x, y) ==
    IF x < 0 \/ y < 0 \/ x >= img.width \/ y >= img.height
    THEN 0
    ELSE IF Data(img, (y * img.width + x) * 4 + 3) >= alphaThreshold THEN 1 ELSE 0

(* function getVal(x, y), lines 87-91 *)
GetVal(img, x, y) ==
    IF x < 0 \/ y < 0 \/ x >= img.width \/ y >= img.height
    THEN 0
    ELSE IF Data(img, (y * img.width + x) * 4 + 3) > alphaThreshold THEN 1 ELSE 0

(* const isSolid = (x, y) => getVal(x, y) === 1, line 108 *)
IsSolid(img, x, y) == GetVal(img, x, y) = 1

(* The scan with the loops exchanged: columns left to right, each from    *)
(* the top                                                                 *)
RECURSIVE ScanColumns(_, _, _, _)
ScanColumns(img, step, x, y) ==
    IF x >= img.width THEN Null
    ELSE IF y >= img.height THEN ScanColumns(img, step, x + step, 0)
    ELSE IF GetVal(img, x, y) = 1 THEN Some(<<Pt(x, y)>>)
    ELSE ScanColumns(img, step, x, y + step)

(* The nested raster-scan loops of lines 94-102 (and again 111-115),       *)
(* entered at sample (x, y): the first solid sample, or Null.              *)
RECURSIVE Scan(_, _, _, _)
Scan(img, step, x, y) ==
    IF y >= img.height THEN Null
    ELSE IF x >= img.width THEN Scan(img, step, 0, y + step)
    ELSE IF GetVal(img, x, y) = 1 THEN Some(<<Pt(x, y)>>)
    ELSE Scan(img, step, x + step, y)

(* checkDirs with straight ahead tried before the turns *)
CheckDirsStraightFirst(dir) == <<dir, (dir + 3) % 4, (dir + 1) % 4, (dir + 2) % 4>>

(* checkDirs with the two turns exchanged *)
CheckDirsTurnsSwapped(dir) == <<(dir + 1) % 4, dir, (dir + 3) % 4, (dir + 2) % 4>>

(* const checkDirs = [(dir + 3) % 4, dir, (dir + 1) % 4, (dir + 2) % 4], line 126 *)
CheckDirs(dir) == <<(dir + 3) % 4, dir, (dir + 1) % 4, (dir + 2) % 4>>

(* The candidate with direction 0 stepping along both axes *)
CandidateDiagonal(cx, cy, d, step) ==
    Pt(IF d = 0 THEN cx + step ELSE IF d = 2 THEN cx - step ELSE cx,
       IF d = 0 \/ d = 1 THEN cy + step ELSE IF d = 3 THEN cy - step ELSE cy)

(* lines 129-133: the candidate position in direction d *)
Candidate(cx, cy, d, step) ==
    Pt(IF d = 0 THEN cx + step ELSE IF d = 2 THEN cx - step ELSE cx,
       IF d = 1 THEN cy + step ELSE IF d = 3 THEN cy - step ELSE cy)

(* lines 128-142: index in checkDirs of the first solid candidate, 0 if none *)
FirstFound(img, cx, cy, dirs, step) ==
    LET ok == {k \in 1..Len(dirs) :
                  LET c == Candidate(cx, cy, dirs[k], step) IN IsSolid(img, c.x, c.y)}
    IN IF ok = {} THEN 0 ELSE CHOOSE k \in ok : \A j \in ok : k <= j

(* The distance test with >= instead of > *)
DistAtLeast(p1, p2, d) ==
    (p1.x - p2.x) * (p1.x - p2.x) + (p1.y - p2.y) * (p1.y - p2.y) >= d * d

(* Math.hypot(p1.x - p2.x, p1.y - p2.y) > 15, lines 153-154.  For integer  *)
(* coordinates sqrt(n) > 15 exactly when n > 15 * 15.                      *)
DistExceeds(p1, p2, d) ==
    (p1.x - p2.x) * (p1.x - p2.x) + (p1.y - p2.y) * (p1.y - p2.y) > d * d

IdleFrame ==
    [pc |-> "idle", img |-> Image(0, 0, {}), step |-> 0, sx |-> 0, sy |-> 0,
     cx |-> 0, cy |-> 0, dir |-> 0, maxIter |-> 0, path |-> <<>>,
     simplified |-> <<>>, i |-> 0, result |-> Null]

(* Entry of getVerticesFromImage(img, samplingStep), lines 75-85 *)
EnterFrame(img, step) == [IdleFrame EXCEPT !.pc = "seed", !.img = img, !.step = step]

(* lines 93-121: both seed searches, the early returns and the trace's     *)
(* initial values *)
SeedSearch(f) ==
    LET startPoint == Scan(f.img, f.step, 0, 0)
        s == Scan(f.img, f.step, 0, 0)
    IN IF startPoint.isNull THEN [f EXCEPT !.pc = "returned", !.result = Null]
       ELSE IF s.isNull THEN [f EXCEPT !.pc = "returned", !.result = Null, !.sx = -1, !.sy = -1]
       ELSE [f EXCEPT !.pc = "trace", !.sx = s.pts[1].x, !.sy = s.pts[1].y,
                      !.cx = s.pts[1].x, !.cy = s.pts[1].y,
                      !.dir = 0, !.maxIter = maxIterInit, !.path = <<>>]

(* The loop iteration with maxIter >= 0 as the budget test *)
TraceIterOneMore(f) ==
    LET path2 == Append(f.path, Pt(f.cx, f.cy))
        dirs == CheckDirs(f.dir)
        k == FirstFound(f.img, f.cx, f.cy, dirs, f.step)
    IN IF k = 0
       THEN [f EXCEPT !.path = path2, !.pc = "simplify"]
       ELSE LET c == Candidate(f.cx, f.cy, dirs[k], f.step)
                again == (c.x # f.sx \/ c.y # f.sy) /\ f.maxIter - 1 >= 0
            IN [f EXCEPT !.path = path2, !.cx = c.x, !.cy = c.y, !.dir = dirs[k],
                         !.maxIter = f.maxIter - 1,
                         !.pc = IF again THEN "trace" ELSE "simplify"]

(* The loop iteration with (cx !== sx && cy !== sy) as the loop condition *)
TraceIterBothDiffer(f) ==
    LET path2 == Append(f.path, Pt(f.cx, f.cy))
        dirs == CheckDirs(f.dir)
        k == FirstFound(f.img, f.cx, f.cy, dirs, f.step)
    IN IF k = 0
       THEN [f EXCEPT !.path = path2, !.pc = "simplify"]
       ELSE LET c == Candidate(f.cx, f.cy, dirs[k], f.step)
                again == (c.x # f.sx /\ c.y # f.sy) /\ f.maxIter - 1 > 0
            IN [f EXCEPT !.path = path2, !.cx = c.x, !.cy = c.y, !.dir = dirs[k],
                         !.maxIter = f.maxIter - 1,
                         !.pc = IF again THEN "trace" ELSE "simplify"]

(* The loop iteration with path.push after the move instead of before it *)
TraceIterPushAfter(f) ==
    LET dirs == CheckDirs(f.dir)
        k == FirstFound(f.img, f.cx, f.cy, dirs, f.step)
    IN IF k = 0
       THEN [f EXCEPT !.pc = "simplify"]
       ELSE LET c == Candidate(f.cx, f.cy, dirs[k], f.step)
                again == (c.x # f.sx \/ c.y # f.sy) /\ f.maxIter - 1 > 0
            IN [f EXCEPT !.path = Append(f.path, c), !.cx = c.x, !.cy = c.y, !.dir = dirs[k],
                         !.maxIter = f.maxIter - 1,
                         !.pc = IF again THEN "trace" ELSE "simplify"]

(* lines 123-146: one iteration of the do-while loop and its condition *)
TraceIter(f) ==
    LET path2 == Append(f.path, Pt(f.cx, f.cy))
        dirs == CheckDirs(f.dir)
        k == FirstFound(f.img, f.cx, f.cy, dirs, f.step)
    IN IF k = 0
       THEN [f EXCEPT !.path = path2, !.pc = "simplify"]
       ELSE LET c == Candidate(f.cx, f.cy, dirs[k], f.step)
                again == (c.x # f.sx \/ c.y # f.sy) /\ f.maxIter - 1 > 0
            IN [f EXCEPT !.path = path2, !.cx = c.x, !.cy = c.y, !.dir = dirs[k],
                         !.maxIter = f.maxIter - 1,
                         !.pc = IF again THEN "trace" ELSE "simplify"]

(* lines 148-149: const simplified = []; push path[0] if the path is not empty *)
SimplifyBegin(f) ==
    [f EXCEPT !.simplified = IF Len(f.path) > 0 THEN <<f.path[1]>> ELSE <<>>,
              !.i = 1,
              !.pc = "filter"]

(* lines 150-157: one iteration of the for loop (i is the JS index) *)
SimplifyIter(f) ==
    LET p1 == f.simplified[Len(f.simplified)]
        p2 == f.path[f.i + 1]
    IN [f EXCEPT !.simplified = IF DistExceeds(p1, p2, minSegmentLength)
                                THEN Append(f.simplified, p2) ELSE f.simplified,
                 !.i = f.i + 1]

(* line 159: return simplified.map(p => ({ x: p.x, y: p.y })) *)
ReturnSimplified(f) ==
    [f EXCEPT !.result = Some([k \in 1..Len(f.simplified) |->
                                  Pt(f.simplified[k].x, f.simplified[k].y)]),
              !.pc = "returned"]

StepFrame(f) ==
    CASE f.pc = "seed" -> SeedSearch(f)
      [] f.pc = "trace" -> TraceIter(f)
      [] f.pc = "simplify" -> SimplifyBegin(f)
      [] f.pc = "filter" /\ f.i < Len(f.path) -> SimplifyIter(f)
      [] f.pc = "filter" /\ f.i >= Len(f.path) -> ReturnSimplified(f)

(* n steps of the call from frame f, or as many as it takes to return *)
RECURSIVE Steps(_, _)
Steps(f, n) ==
    IF n = 0 \/ f.pc = "returned" THEN f
    ELSE IF n = 1 THEN StepFrame(f)
    ELSE Steps(Steps(f, n \div 2), n - n \div 2)

(* The call run from frame f to its return, n steps and then twice as many *)
RECURSIVE RunFrom(_, _)
RunFrom(f, n) ==
    LET g == Steps(f, n)
    IN IF g.pc = "returned" THEN g ELSE RunFrom(g, 2 * n)

RunFrame(f) == RunFrom(f, 1)

(* The value getVerticesFromImage(img, samplingStep) returns *)
GetVerticesFromImage(img, step) == RunFrame(EnterFrame(img, step)).result

----------------------------------------------------------------------------
(* img.onload of spawnNewBody (lines 175-190) and createBody (194-248)     *)

(* A number n * num / den, as the image scale and everything scaled by it *)
Rat(n, d) == [num |-> n, den |-> d]
Times(k, r) == Rat(k * r.num, r.den)

(* const scale = Math.min(maxDim / img.width, maxDim / img.height), line 178 *)
ScaleOf(img) ==
    IF maxDim * img.height <= maxDim * img.width
    THEN Rat(maxDim, img.width)
    ELSE Rat(maxDim, img.height)

(* The map with v.x used for both coordinates *)
ScaleVerticesXOnly(raw, scale) ==
    IF raw.isNull THEN Null
    ELSE Some([k \in 1..Len(raw.pts) |->
                  [x |-> Times(raw.pts[k].x, scale), y |-> Times(raw.pts[k].x, scale)]])

(* rawVertices.map(v => ({ x: v.x * scale, y: v.y * scale })), line 181 *)
ScaleVertices(raw, scale) ==
    IF raw.isNull THEN Null
    ELSE Some([k \in 1..Len(raw.pts) |->
                  [x |-> Times(raw.pts[k].x, scale), y |-> Times(raw.pts[k].y, scale)]])

(* The usable test with length > 1 *)
UsableVerticesTwo(vertices) == ~vertices.isNull /\ Len(vertices.pts) > 1

(* if (vertices && vertices.length > 2), line 183 *)
UsableVertices(vertices) == ~vertices.isNull /\ Len(vertices.pts) > 2

(* The cache entry with vertices: null in both branches *)
CacheEntryNoVertices(img, rawVertices) ==
    [vertices |-> Null, scale |-> ScaleOf(img), img |-> img]

(* lines 181-189: the entry stored in vertexCache[randomAsset] *)
CacheEntry(img, rawVertices) ==
    LET scale == ScaleOf(img)
        vertices == ScaleVertices(rawVertices, scale)
    IN IF UsableVertices(vertices)
       THEN [vertices |-> vertices, scale |-> scale, img |-> img]
       ELSE [vertices |-> Null, scale |-> scale, img |-> img]

(* Bodies.rectangle(x, y, img.width * scale, img.height * scale, ...),     *)
(* lines 218 and 231 *)
RectangleShape(img, scale, why) ==
    [kind |-> "rectangle", vertices |-> <<>>,
     w |-> Times(img.width, scale), h |-> Times(img.height, scale), why |-> why]

PolygonShape(vertices) ==
    [kind |-> "polygon", vertices |-> vertices.pts,
     w |-> Rat(0, 1), h |-> Rat(0, 1), why |-> "vertices"]

(* lines 195-244: the body createBody builds from a cache entry; fromOk is *)
(* whether Bodies.fromVertices returned a body (line 217)                  *)
NewBody(x, y, assetPath, data, fromOk, game) ==
    LET spriteData == [texture |-> assetPath, xScale |-> data.scale, yScale |-> data.scale]
        shape == IF ~data.vertices.isNull
                 THEN IF fromOk THEN PolygonShape(data.vertices)
                      ELSE RectangleShape(data.img, data.scale, "fromVertices failed")
                 ELSE RectangleShape(data.img, data.scale, "no vertices")
    IN [label |-> "animal", isStatic |-> TRUE, x |-> x, y |-> y, angle |-> 0,
        shape |-> shape, sprite |-> spriteData, game |-> game]

(* The body objects are kept by id; a new object gets the least free id *)
FreshId(heap) == CHOOSE k \in 1..(Cardinality(DOMAIN heap) + 1) : k \notin DOMAIN heap

(* createBody(x, y, assetPath, data), lines 194-248, called with the       *)
(* Composite holding worldNow and the body objects heapNow                 *)
CreateBody(worldNow, heapNow, x, y, assetPath, data, fromOk, game) ==
    LET id == FreshId(heapNow)
    IN /\ bodies' = (id :> NewBody(x, y, assetPath, data, fromOk, game)) @@ heapNow
       /\ currentBody' = id
       /\ isDropping' = FALSE
       /\ world' = worldNow \cup {id}

----------------------------------------------------------------------------
(* The game *)

(* MaxSpawns bounds the calls of spawnNewBody in a run (each startGame and *)
(* each landing timer of a live game makes one), MaxRot the quarter-pi     *)
(* rotations of one body                                                   *)
MaxSpawns == 3
MaxRot == 1

(* The assets Math.floor(Math.random() * assets.length) is drawn from, line 167 *)
Assets == {assets[1], assets[2]}

(* The decoded image of each asset file.  The files are not part of the    *)
(* source; one image of each kind the pipeline distinguishes is assumed.   *)
AssetImage(a) ==
    CASE a = "assets/1.png" -> Image(30, 40, {Block(2, 3, 25, 30, 200)})
      [] a = "assets/2.png" -> Image(32, 32, {})
      [] a = "assets/4.png" -> Image(24, 12, {Block(0, 4, 19, 7, 255)})
      [] a = "assets/5.png" -> Image(24, 16, {Block(8, 8, 8, 8, 255)})
      [] a = "assets/6.png" -> Image(64, 64, {Block(4, 4, 59, 59, 255)})

(* Whether Bodies.fromVertices(x, y, [vertices], ...) of line 205 returns a *)
(* body for the vertices of the asset: the library is not part of the      *)
(* source, and it is a function of the vertices it is given.               *)
FromVerticesOk(assetPath) == assetPath # "assets/4.png"

startX == width \div 2

YLevels == {height + 50, height + 51}
InnerHeights == {height, height + 100}
ClientXs == {0}
ClickTargets == {"canvas", "overlay"}
KeyCodes == {"Space", "KeyR", "KeyA"}
PlayerInputs == {" "}

(* const ground = Bodies.rectangle(width / 2, height - 30, platformWidth, 60, ...), lines 45-52 *)
platformWidth == 480
Ground ==
    [label |-> "ground", isStatic |-> TRUE, x |-> width \div 2, y |-> height - 30, angle |-> 0,
     shape |-> [kind |-> "rectangle", vertices |-> <<>>, w |-> Rat(platformWidth, 1),
                h |-> Rat(60, 1), why |-> "ground"],
     sprite |-> [texture |-> "", xScale |-> Rat(1, 1), yScale |-> Rat(1, 1)],
     game |-> 0]

Animals(w) == {b \in w : bodies[b].label = "animal"}

(* Loads in flight are told apart by the least id no other one carries *)
FreshLoad == CHOOSE k \in 1..(Cardinality(loads) + 1) : \A l \in loads : l.id # k

(* spawnNewBody(), lines 162-192, called when gameOver is gameOverNow, the *)
(* Composite holds worldNow and the counters are histNow; randomAsset is   *)
(* the asset Math.random() picks                                           *)
SpawnNewBody(gameOverNow, worldNow, heapNow, histNow, randomAsset) ==
    IF gameOverNow
    THEN /\ world' = worldNow
         /\ bodies' = heapNow
         /\ hist' = [histNow EXCEPT !.spawns = @ + 1]
         /\ UNCHANGED <<currentBody, isDropping, loads>>
    ELSE IF randomAsset \in DOMAIN vertexCache
    THEN /\ CreateBody(worldNow, heapNow, startX, startY, randomAsset, vertexCache[randomAsset],
                       FromVerticesOk(randomAsset), histNow.games)
         /\ hist' = [histNow EXCEPT !.spawns = @ + 1]
         /\ UNCHANGED loads
    ELSE /\ loads' = loads \cup {[id |-> FreshLoad, asset |-> randomAsset,
                                  img |-> AssetImage(randomAsset),
                                  game |-> histNow.games, stale |-> FALSE]}
         /\ hist' = [histNow EXCEPT !.spawns = @ + 1]
         /\ world' = worldNow
         /\ bodies' = heapNow
         /\ UNCHANGED <<currentBody, isDropping>>

(* lines 177-189: what img.onload does, past its gameOver check, with the  *)
(* vertices getVerticesFromImage returned                                  *)
OnloadTail(l, rawVertices, fromOk) ==
    LET entry == CacheEntry(l.img, rawVertices)
    IN /\ vertexCache' = (l.asset :> entry) @@ vertexCache
       /\ CreateBody(world, bodies, startX, startY, l.asset, entry, fromOk, hist.games)
       /\ hist' = [hist EXCEPT !.extractions[l.asset] = @ + 1]

(* img.onload, lines 175-190 *)
ImgOnload(l) ==
    /\ l \in loads
    /\ loads' = loads \ {l}
    /\ IF gameOver
       THEN UNCHANGED <<vertexCache, bodies, currentBody, isDropping, world, hist>>
       ELSE OnloadTail(l, GetVerticesFromImage(l.img, samplingStep), FromVerticesOk(l.asset))
    /\ UNCHANGED <<gameStarted, gameOver, score, timers, ranking, ui, frame>>

(* The image fails to load or decode: no onerror handler is installed      *)
(* (lines 172-175), so nothing runs                                        *)
ImgError(l) ==
    /\ l \in loads
    /\ loads' = loads \ {l}
    /\ UNCHANGED <<gameStarted, gameOver, score, currentBody, isDropping, vertexCache,
                   bodies, world, timers, ranking, ui, hist, frame>>

(* The body objects still referenced once the Composite holds w: those of  *)
(* w and the one currentBody points to (the others are garbage)            *)
Reachable(w) == [b \in (w \cup ({currentBody} \ {null})) |-> bodies[b]]

(* startGame(), lines 274-292 (the start button is clickable when shown) *)
StartGame(randomAsset) ==
    /\ ui.startBtn
    /\ hist.spawns + Len(timers) < MaxSpawns
    /\ gameStarted' = TRUE
    /\ gameOver' = FALSE
    /\ score' = 0
    /\ ui' = [ui EXCEPT !.uiScore = 0, !.overlay = FALSE, !.gameOverContent = FALSE,
                        !.startBtn = FALSE]
    /\ LET kept == world \ Animals(world)
       IN SpawnNewBody(FALSE, kept, Reachable(kept), [hist EXCEPT !.games = @ + 1],
                       randomAsset)
    /\ UNCHANGED <<vertexCache, timers, ranking, frame>>

(* The condition without its !isDropping conjunct *)
InputAcceptedWhileDropping == gameStarted /\ currentBody # null /\ ~gameOver

(* The condition every input handler tests, lines 309, 318, 334, 341 *)
InputAccepted == gameStarted /\ currentBody # null /\ ~isDropping /\ ~gameOver

(* document 'mousemove' listener, lines 308-313 *)
MouseMove(clientX) ==
    /\ IF InputAccepted
       THEN bodies' = [bodies EXCEPT ![currentBody].x = Min2(Max2(clientX, 50), width - 50),
                                     ![currentBody].y = 100]
       ELSE UNCHANGED bodies
    /\ UNCHANGED <<gameStarted, gameOver, score, currentBody, isDropping, vertexCache,
                   world, loads, timers, ranking, ui, hist, frame>>

(* document 'click' listener, lines 315-330 *)
Click(target) ==
    /\ target = "overlay" => ui.overlay
    /\ IF target # "overlay" /\ InputAccepted
       THEN /\ hist.spawns + Len(timers) < MaxSpawns
            /\ isDropping' = TRUE
            /\ bodies' = [bodies EXCEPT ![currentBody].isStatic = FALSE]
            /\ timers' = Append(timers, [game |-> hist.games])
       ELSE UNCHANGED <<isDropping, bodies, timers>>
    /\ UNCHANGED <<gameStarted, gameOver, score, currentBody, vertexCache,
                   world, loads, ranking, ui, hist, frame>>

(* The callback without its (!gameOver && gameStarted) test *)
TimerFireUnchecked(randomAsset) ==
    /\ timers # <<>>
    /\ timers' = Tail(timers)
    /\ score' = score + 1
    /\ ui' = [ui EXCEPT !.uiScore = score + 1]
    /\ SpawnNewBody(gameOver, world, bodies, hist, randomAsset)
    /\ UNCHANGED <<gameStarted, gameOver, vertexCache, ranking, frame>>

(* The setTimeout callback of the click listener, lines 322-328 *)
TimerFire(randomAsset) ==
    /\ timers # <<>>
    /\ timers' = Tail(timers)
    /\ IF ~gameOver /\ gameStarted
       THEN /\ score' = score + 1
            /\ ui' = [ui EXCEPT !.uiScore = score + 1]
            /\ SpawnNewBody(gameOver, world, bodies, hist, randomAsset)
       ELSE UNCHANGED <<score, ui, bodies, currentBody, isDropping, world, loads, hist>>
    /\ UNCHANGED <<gameStarted, gameOver, vertexCache, ranking, frame>>

(* Matter.Body.rotate(currentBody, Math.PI / 4), lines 335 and 342; the   *)
(* angle is counted in eighths of a turn                                   *)
RotateCurrent ==
    IF InputAccepted
    THEN /\ bodies[currentBody].angle < MaxRot
         /\ bodies' = [bodies EXCEPT ![currentBody].angle = @ + 1]
    ELSE UNCHANGED bodies

(* document 'contextmenu' listener, lines 332-337 *)
ContextMenu ==
    /\ RotateCurrent
    /\ UNCHANGED <<gameStarted, gameOver, score, currentBody, isDropping, vertexCache,
                   world, loads, timers, ranking, ui, hist, frame>>

(* document 'keydown' listener, lines 339-345 *)
KeyDown(code) ==
    /\ IF code = "Space" \/ code = "KeyR" THEN RotateCurrent ELSE UNCHANGED bodies
    /\ UNCHANGED <<gameStarted, gameOver, score, currentBody, isDropping, vertexCache,
                   world, loads, timers, ranking, ui, hist, frame>>

(* The test without the label check of line 380 *)
FellOutAnyLabel(bs, b) ==
    /\ ~(b = currentBody /\ ~isDropping)
    /\ bs[b].y > height + 50

(* The test of the afterUpdate loop, lines 380-383, on body b *)
FellOut(bs, b) ==
    /\ bs[b].label = "animal"
    /\ ~(b = currentBody /\ ~isDropping)
    /\ bs[b].y > height + 50

(* One engine update: the simulation moves a free body of the world (or   *)
(* none, b = null) to height y of the play field's centre line, upright,   *)
(* then the 'afterUpdate' handler, lines 374-388, runs and may call        *)
(* endGame(), lines 294-303                                                *)
EngineUpdate(b, y) ==
    /\ b # null => b \in world /\ ~bodies[b].isStatic
    /\ LET moved == IF b = null THEN bodies
                    ELSE [bodies EXCEPT ![b].x = startX, ![b].y = y, ![b].angle = 0]
       IN /\ bodies' = moved
          /\ IF gameStarted /\ ~gameOver /\ \E c \in world : FellOut(moved, c)
             THEN /\ gameOver' = TRUE
                  /\ ui' = [ui EXCEPT !.finalScore = score, !.overlay = TRUE,
                                      !.gameOverContent = TRUE, !.startBtn = FALSE]
                  /\ loads' = {[l EXCEPT !.stale = TRUE] : l \in loads}
             ELSE UNCHANGED <<gameOver, ui, loads>>
    /\ UNCHANGED <<gameStarted, score, currentBody, isDropping, vertexCache, world,
                   timers, ranking, hist, frame>>

(* playerNameInput.value.trim() *)
Trim(v) == IF v = " " THEN "" ELSE v

(* The sort with the comparator a.score - b.score *)
RECURSIVE InsertAsc(_, _)
InsertAsc(s, e) ==
    IF s = <<>> THEN <<e>>
    ELSE IF Head(s).score <= e.score THEN <<Head(s)>> \o InsertAsc(Tail(s), e)
    ELSE <<e>> \o s

RECURSIVE SortAsc(_)
SortAsc(s) ==
    IF s = <<>> THEN <<>>
    ELSE InsertAsc(SortAsc(SubSeq(s, 1, Len(s) - 1)), s[Len(s)])

(* ranking.sort((a, b) => b.score - a.score), line 264: a stable sort,     *)
(* as insertion from the left *)
RECURSIVE InsertDesc(_, _)
InsertDesc(s, e) ==
    IF s = <<>> THEN <<e>>
    ELSE IF Head(s).score >= e.score THEN <<Head(s)>> \o InsertDesc(Tail(s), e)
    ELSE <<e>> \o s

RECURSIVE SortDesc(_)
SortDesc(s) ==
    IF s = <<>> THEN <<>>
    ELSE InsertDesc(SortDesc(SubSeq(s, 1, Len(s) - 1)), s[Len(s)])

(* ranking.slice(0, 5), line 265 *)
Slice(s, n) == SubSeq(s, 1, Min2(Len(s), n))

(* saveScore(), lines 260-272 (the save button is clickable when shown) *)
SaveScore(value) ==
    /\ ui.gameOverContent
    /\ LET name == IF Trim(value) = "" THEN "No Name" ELSE Trim(value)
       IN ranking' = Slice(SortDesc(Append(ranking, [name |-> name, score |-> score])),
                           rankingSize)
    /\ ui' = [ui EXCEPT !.gameOverContent = FALSE, !.startBtn = TRUE]
    /\ hist' = [hist EXCEPT !.saved = Append(@, score)]
    /\ UNCHANGED <<gameStarted, gameOver, score, currentBody, isDropping, vertexCache,
                   bodies, world, loads, timers, frame>>

(* window 'resize' listener, lines 390-394 *)
Resize(innerHeight) ==
    /\ bodies' = [bodies EXCEPT ![1].y = innerHeight - 30]
    /\ UNCHANGED <<gameStarted, gameOver, score, currentBody, isDropping, vertexCache,
                   world, loads, timers, ranking, ui, hist, frame>>

(* The state once the script has run, lines 13-73 and 396 *)
Init ==
    /\ gameStarted = FALSE
    /\ gameOver = FALSE
    /\ score = 0
    /\ currentBody = null
    /\ isDropping = FALSE
    /\ vertexCache = <<>>
    /\ bodies = (1 :> Ground)
    /\ world = {1}
    /\ loads = {}
    /\ timers = <<>>
    /\ ranking = <<>>
    /\ ui = [overlay |-> TRUE, gameOverContent |-> FALSE, startBtn |-> TRUE,
             uiScore |-> 0, finalScore |-> 0]
    /\ hist = [games |-> 0, spawns |-> 0,
               extractions |-> [a \in Assets |-> 0],
               saved |-> <<>>]
    /\ frame = IdleFrame

Next ==
    \/ \E a \in Assets : StartGame(a)
    \/ \E l \in loads : ImgOnload(l)
    \/ \E l \in loads : ImgError(l)
    \/ \E x \in ClientXs : MouseMove(x)
    \/ \E t \in ClickTargets : Click(t)
    \/ \E a \in Assets : TimerFire(a)
    \/ ContextMenu
    \/ \E c \in KeyCodes : KeyDown(c)
    \/ \E b \in {null} \cup world, y \in YLevels : EngineUpdate(b, y)
    \/ \E v \in PlayerInputs : SaveScore(v)
    \/ \E h \in InnerHeights : Resize(h)

Spec == Init /\ [][Next]_vars

----------------------------------------------------------------------------
(* One run of img.onload, getVerticesFromImage taken one loop iteration at *)
(* a time, over a bounded family of images                                 *)

GridRows == (MaxCells + GridCols - 1) \div GridCols

(* The mask whose solid grid samples are the cells of `cells`, numbered in *)
(* raster order on a grid of GridCols columns                              *)
MaskImage(cells) ==
    Image(samplingStep * (GridCols - 1) + 1, samplingStep * (GridRows - 1) + 1,
          {Block(samplingStep * (k % GridCols), samplingStep * (k \div GridCols),
                 samplingStep * (k % GridCols), samplingStep * (k \div GridCols), 255) : k \in cells})

(* A single filled rw x rh rectangle at (ox, oy), with the same margin on  *)
(* the far sides                                                           *)
RectImage(ox, oy, rw, rh) ==
    Image(ox + rw + ox, oy + rh + oy, {Block(ox, oy, ox + rw - 1, oy + rh - 1, 255)})

(* A one-pixel-high opaque line of n grid samples *)
LineImage(n) ==
    Image(samplingStep * (n - 1) + 1, 1, {Block(0, 0, samplingStep * (n - 1), 0, 255)})

Bordered64 == Image(64, 64, {Block(4, 4, 59, 59, 255)})
Transparent32 == Image(32, 32, {})

MaskImages == {MaskImage(c) : c \in SUBSET (0..(MaxCells - 1))}
RectImages ==
    {RectImage(ox, oy, rw, rh) : ox \in 0..MaxOff, oy \in 0..MaxOff,
                                 rw \in (2 * samplingStep)..MaxRect,
                                 rh \in (2 * samplingStep)..MaxRect}
LineImages == {LineImage(n) : n \in {maxIterInit \div 2 + 1, maxIterInit \div 2 + 2}}
SpecialImages ==
    {Bordered64, Transparent32,
     Image(8, 8, {Block(1, 1, 3, 3, 255)}),
     Image(8, 8, {Block(0, 0, 7, 7, alphaThreshold)}),
     Image(8, 8, {Block(0, 0, 7, 7, alphaThreshold + 1)}),
     Image(8, 8, {Block(0, 0, 7, 7, alphaThreshold - 1)}),
     Image(24, 12, {Block(0, 4, 19, 7, 255)})}

ExtractImages == MaskImages \cup RectImages \cup SpecialImages
RunImages == MaskImages \cup LineImages \cup SpecialImages

(* img.onload up to the call of getVerticesFromImage, lines 175-179 *)
OnloadEnter(l) ==
    /\ l \in loads
    /\ frame.pc = "idle"
    /\ ~gameOver
    /\ frame' = EnterFrame(l.img, samplingStep)
    /\ UNCHANGED gameVars

SeedStep ==
    /\ frame.pc = "seed"
    /\ frame' = SeedSearch(frame)
    /\ UNCHANGED gameVars

TraceStep ==
    /\ frame.pc = "trace"
    /\ frame' = TraceIter(frame)
    /\ UNCHANGED gameVars

SimplifyBeginStep ==
    /\ frame.pc = "simplify"
    /\ frame' = SimplifyBegin(frame)
    /\ UNCHANGED gameVars

FilterStep ==
    /\ frame.pc = "filter"
    /\ frame.i < Len(frame.path)
    /\ frame' = SimplifyIter(frame)
    /\ UNCHANGED gameVars

ReturnStep ==
    /\ frame.pc = "filter"
    /\ frame.i >= Len(frame.path)
    /\ frame' = ReturnSimplified(frame)
    /\ UNCHANGED gameVars

(* img.onload from the return of getVerticesFromImage on, lines 179-189 *)
OnloadFinish(l, fromOk) ==
    /\ l \in loads
    /\ frame.pc = "returned"
    /\ loads' = loads \ {l}
    /\ OnloadTail(l, frame.result, fromOk)
    /\ UNCHANGED <<gameStarted, gameOver, score, timers, ranking, ui, frame>>

(* A started game whose first spawnNewBody has requested an image that    *)
(* decodes to img                                                          *)
InitWith(img) ==
    /\ gameStarted = TRUE
    /\ gameOver = FALSE
    /\ score = 0
    /\ currentBody = null
    /\ isDropping = FALSE
    /\ vertexCache = <<>>
    /\ bodies = (1 :> Ground)
    /\ world = {1}
    /\ loads = {[id |-> 1, asset |-> assets[1], img |-> img, game |-> 1, stale |-> FALSE]}
    /\ timers = <<>>
    /\ ranking = <<>>
    /\ ui = [overlay |-> FALSE, gameOverContent |-> FALSE, startBtn |-> FALSE,
             uiScore |-> 0, finalScore |-> 0]
    /\ hist = [games |-> 1, spawns |-> 1, extractions |-> [a \in Assets |-> 0],
               saved |-> <<>>]
    /\ frame = IdleFrame

InitExtract == \E img \in ExtractImages : InitWith(img)

NextExtract ==
    \/ \E l \in loads : OnloadEnter(l)
    \/ SeedStep
    \/ TraceStep
    \/ SimplifyBeginStep
    \/ FilterStep
    \/ ReturnStep
    \/ \E l \in loads, ok \in BOOLEAN : OnloadFinish(l, ok)

SpecExtract == InitExtract /\ [][NextExtract]_vars

----------------------------------------------------------------------------
(* img.onload run to completion in one step (lines 175-190), the frame of  *)
(* its call of getVerticesFromImage kept as it is at the return            *)

OnloadRun(l, fromOk) ==
    /\ l \in loads
    /\ frame.pc = "idle"
    /\ ~gameOver
    /\ loads' = loads \ {l}
    /\ frame' = RunFrame(EnterFrame(l.img, samplingStep))
    /\ OnloadTail(l, frame'.result, fromOk)
    /\ UNCHANGED <<gameStarted, gameOver, score, timers, ranking, ui>>

InitRun == \E img \in RunImages : InitWith(img)

NextRun == \E l \in loads, ok \in BOOLEAN : OnloadRun(l, ok)

SpecRun == InitRun /\ [][NextRun]_vars

----------------------------------------------------------------------------
(* The simplification loop alone, lines 148-159, over point sequences *)

PathPoints == {Pt(0, 0), Pt(9, 12), Pt(15, 0), Pt(16, 0)}
Paths == UNION {[1..n -> PathPoints] : n \in 0..MaxPathLen}

InitSimplify ==
    \E p \in Paths :
        /\ gameStarted = FALSE
        /\ gameOver = FALSE
        /\ score = 0
        /\ currentBody = null
        /\ isDropping = FALSE
        /\ vertexCache = <<>>
        /\ bodies = (1 :> Ground)
        /\ world = {1}
        /\ loads = {}
        /\ timers = <<>>
        /\ ranking = <<>>
        /\ ui = [overlay |-> TRUE, gameOverContent |-> FALSE, startBtn |-> TRUE,
                 uiScore |-> 0, finalScore |-> 0]
        /\ hist = [games |-> 0, spawns |-> 0, extractions |-> [a \in Assets |-> 0],
               saved |-> <<>>]
        /\ frame = [IdleFrame EXCEPT !.pc = "simplify", !.path = p]

NextSimplify ==
    \/ SimplifyBeginStep
    \/ FilterStep
    \/ ReturnStep

SpecSimplify == InitSimplify /\ [][NextSimplify]_vars

----------------------------------------------------------------------------
(* saveScore over a run of games, each game taken as far as saveScore      *)
(* reads it: the score it ended with and the game-over screen              *)

MaxSaves == 6
MaxScore == 2

(* startGame() and a game played until endGame() with sc landings counted, *)
(* lines 274-303 and 322-328                                               *)
PlayToGameOver(sc) ==
    /\ ui.startBtn
    /\ Len(hist.saved) < MaxSaves
    /\ gameStarted' = TRUE
    /\ gameOver' = TRUE
    /\ score' = sc
    /\ ui' = [ui EXCEPT !.uiScore = sc, !.finalScore = sc, !.overlay = TRUE,
                        !.gameOverContent = TRUE, !.startBtn = FALSE]
    /\ hist' = [hist EXCEPT !.games = @ + 1]
    /\ UNCHANGED <<currentBody, isDropping, vertexCache, bodies, world, loads, timers,
                   ranking, frame>>

NextRanking ==
    \/ \E sc \in 0..MaxScore : PlayToGameOver(sc)
    \/ \E v \in PlayerInputs : SaveScore(v)

SpecRanking == Init /\ [][NextRanking]_vars

----------------------------------------------------------------------------
(* Claims *)

(* C1: for every interleaving of spawn requests and load completions,      *)
(* contour extraction runs at most once per asset (so vertexCache[asset]   *)
(* is written at most once), and a spawn request for an asset whose load   *)
(* is still in flight does not start a second load of it.                  *)
C1_ExtractOncePerAsset ==
    /\ \A a \in Assets : hist.extractions[a] <= 1
    /\ \A l1 \in loads, l2 \in loads : l1.asset = l2.asset => l1 = l2

(* C2: a load that was in flight when the game reached game over discards  *)
(* its result when it completes: it neither writes vertexCache nor creates *)
(* a body, whatever happened in between (a restart included).              *)
C2_StaleLoadDiscarded ==
    [][\A l \in loads : (l.stale /\ l \notin loads') =>
            /\ vertexCache' = vertexCache
            /\ bodies' = bodies
            /\ world' = world
            /\ currentBody' = currentBody]_vars

(* C3: in an active game every image load that ends, by success or by a    *)
(* decode failure, leaves a new unreleased current piece in the world (the *)
(* failure case with a fallback rectangle), so play can continue.          *)
C3_LoadEndYieldsPiece ==
    [][(gameStarted /\ ~gameOver /\ \E l \in loads : l \notin loads') =>
            /\ currentBody' \notin DOMAIN bodies
            /\ currentBody' \in world'
            /\ bodies'[currentBody'].isStatic
            /\ bodies'[currentBody'].shape.kind \in {"polygon", "rectangle"}
            /\ ~isDropping']_vars

(* Notions the claims below are stated with, taken from the alpha bytes of *)
(* the image and the plane geometry, not from the extraction's operators   *)

SolidAt(img, x, y) ==
    /\ x >= 0 /\ y >= 0 /\ x < img.width /\ y < img.height
    /\ Alpha(img, x, y) > 10

SolidSamples(img) ==
    {c \in {x \in 0..(img.width - 1) : x % 4 = 0} \X {y \in 0..(img.height - 1) : y % 4 = 0} :
        SolidAt(img, c[1], c[2])}

RatIs(r, n, d) == r.num * d = n * r.den

DistSq(p, q) == (p.x - q.x) * (p.x - q.x) + (p.y - q.y) * (p.y - q.y)

SetMin(S) == CHOOSE m \in S : \A k \in S : m <= k

Abs(n) == IF n < 0 THEN -n ELSE n

(* Unit vectors of the four directions 0:+x 1:+y 2:-x 3:-y; the raster's y *)
(* axis points down the screen, so turning right takes +x to +y             *)
DirVec(d) == CASE d = 0 -> <<1, 0>> [] d = 1 -> <<0, 1>> [] d = 2 -> <<-1, 0>> [] d = 3 -> <<0, -1>>
TurnRight(v) == <<-v[2], v[1]>>
TurnLeft(v) == <<v[2], -v[1]>>
Reverse(v) == <<-v[1], -v[2]>>

Ahead(f, v) == <<f.cx + f.step * v[1], f.cy + f.step * v[2]>>

(* g is f after one loop iteration that tries the headings of `order` in   *)
(* turn and moves to the first solid one, or stops where it is             *)
MovesInOrder(f, g, order) ==
    LET open == {k \in 1..4 : SolidAt(f.img, Ahead(f, order[k])[1], Ahead(f, order[k])[2])}
    IN IF open = {}
       THEN g.cx = f.cx /\ g.cy = f.cy /\ g.pc = "simplify"
       ELSE LET k == SetMin(open)
            IN /\ g.cx = Ahead(f, order[k])[1]
               /\ g.cy = Ahead(f, order[k])[2]
               /\ DirVec(g.dir) = order[k]

SeedIsolated(f) ==
    \A d \in 0..3 : ~SolidAt(f.img, f.sx + f.step * DirVec(d)[1], f.sy + f.step * DirVec(d)[2])

IsolatedSeedPath ==
    (frame.pc \in {"simplify", "filter", "returned"}
        /\ SolidAt(frame.img, frame.sx, frame.sy) /\ SeedIsolated(frame))
    => frame.path = <<Pt(frame.sx, frame.sy)>>

(* The image is one opaque rectangle of at least m sampling steps a side *)
SingleRect(img, m) ==
    \E b \in img.blocks :
        /\ img.blocks = {b}
        /\ b.alpha > 10
        /\ 0 <= b.x0 /\ b.x1 < img.width /\ 0 <= b.y0 /\ b.y1 < img.height
        /\ b.x1 - b.x0 + 1 >= m * 4
        /\ b.y1 - b.y0 + 1 >= m * 4

(* pts has at least three points and its bounding box is within one        *)
(* sampling step of the rectangle's                                        *)
ContourFits(img, pts) ==
    LET b == CHOOSE c \in img.blocks : TRUE
        xs == {pts[k].x : k \in 1..Len(pts)}
        ys == {pts[k].y : k \in 1..Len(pts)}
    IN /\ Len(pts) >= 3
       /\ Abs(SetMin(xs) - b.x0) <= 4
       /\ Abs(SetMax(xs) - b.x1) <= 4
       /\ Abs(SetMin(ys) - b.y0) <= 4
       /\ Abs(SetMax(ys) - b.y1) <= 4

(* The receiver of the one load of SpecExtract, once onload has finished *)
Piece == bodies[currentBody]
OnloadDone == frame.pc = "returned" /\ loads = {} /\ currentBody # null

(* C4: when no sample of the grid is solid, getVerticesFromImage returns   *)
(* null, the cache entry holds no vertices, and the body is a rectangle of *)
(* img.width * scale by img.height * scale, scale = 120 / max(w, h).       *)
C4_NoSolidSampleGivesRectangle ==
    (frame.pc = "returned" /\ SolidSamples(frame.img) = {}) =>
        /\ frame.result.isNull
        /\ OnloadDone =>
              /\ vertexCache[assets[1]].vertices.isNull
              /\ Piece.shape.kind = "rectangle"
              /\ RatIs(Piece.shape.w, frame.img.width * 120,
                       Max2(frame.img.width, frame.img.height))
              /\ RatIs(Piece.shape.h, frame.img.height * 120,
                       Max2(frame.img.width, frame.img.height))

C4_Witness ==
    /\ OnloadDone
    /\ SolidSamples(frame.img) = {}
    /\ frame.img.blocks # {}
    /\ Piece.shape.kind = "rectangle"

(* C5: when the extraction returns fewer than three simplified points (or  *)
(* null) the cache entry's vertices are null and the body is the rectangle *)
(* fallback; a polygon body is only ever built from three or more points.  *)
C5_FewPointsGiveRectangle ==
    /\ (OnloadDone /\ (frame.result.isNull \/ Len(frame.result.pts) < 3)) =>
          /\ vertexCache[assets[1]].vertices.isNull
          /\ Piece.shape.kind = "rectangle"
          /\ Piece.shape.why = "no vertices"
    /\ \A b \in DOMAIN bodies :
          bodies[b].shape.kind = "polygon" => Len(bodies[b].shape.vertices) >= 3

C5_Witness ==
    /\ OnloadDone
    /\ ~frame.result.isNull
    /\ Len(frame.result.pts) = 2
    /\ Piece.shape.kind = "rectangle"

(* C6: the trace loop ends for every image: it has stopped only back at    *)
(* the seed, with no solid candidate, or after 5000 accepted steps; the    *)
(* path never exceeds 5000 points, and when the step budget runs out the   *)
(* partial path is simplified and returned, not dropped.                   *)
C6_TraceTerminates ==
    /\ Len(frame.path) <= 5000
    /\ (frame.pc \in {"simplify", "filter", "returned"} /\ Len(frame.path) > 0) =>
          \/ Len(frame.path) > 1 /\ frame.cx = frame.sx /\ frame.cy = frame.sy
          \/ Len(frame.path) = 1 /\ SeedIsolated(frame)
          \/ Len(frame.path) = 5000
    /\ (frame.pc = "returned" /\ Len(frame.path) = 5000) =>
          /\ ~frame.result.isNull
          /\ Len(frame.result.pts) >= 2
          /\ frame.result.pts[1] = Pt(frame.sx, frame.sy)
          /\ \A k \in 1..Len(frame.result.pts) :
                \E j \in k..Len(frame.path) : frame.result.pts[k] = frame.path[j]

C6_Witness ==
    /\ frame.pc = "returned"
    /\ Len(frame.path) = 5000
    /\ <<frame.cx, frame.cy>> # <<frame.sx, frame.sy>>
    /\ ~frame.result.isNull

(* C7 as stated: at each step the candidates are tried in the order right  *)
(* turn, straight, left turn, reverse, relative to the current heading,    *)
(* and the trace moves to the first solid one; an isolated seed gives a    *)
(* path of exactly one point.                                              *)
C7_RightTurnFirst ==
    /\ [][frame.pc = "trace" =>
            LET v == DirVec(frame.dir)
            IN MovesInOrder(frame, frame', <<TurnRight(v), v, TurnLeft(v), Reverse(v)>>)]_vars
    /\ []IsolatedSeedPath

(* C7 amended: the candidates are tried in the order left turn, straight,  *)
(* right turn, reverse (on the raster, whose y axis points down), and the  *)
(* trace moves to the first solid one; an isolated seed gives a path of    *)
(* exactly one point.                                                      *)
C7_LeftTurnFirst ==
    /\ [][frame.pc = "trace" =>
            LET v == DirVec(frame.dir)
            IN MovesInOrder(frame, frame', <<TurnLeft(v), v, TurnRight(v), Reverse(v)>>)]_vars
    /\ []IsolatedSeedPath

(* The last move was a left turn taken although straight on was solid too *)
C7_Witness ==
    /\ frame.pc = "trace"
    /\ Len(frame.path) >= 2
    /\ LET p == frame.path[Len(frame.path)]
           q == frame.path[Len(frame.path) - 1]
           v == <<(p.x - q.x) \div frame.step, (p.y - q.y) \div frame.step>>
       IN /\ DirVec(frame.dir) = TurnLeft(v)
          /\ SolidAt(frame.img, p.x + frame.step * v[1], p.y + frame.step * v[2])

C9_Bordered64 ==
    frame.img = Image(64, 64, {Block(4, 4, 59, 59, 255)}) =>
        /\ frame.pc \in {"trace", "simplify", "filter", "returned"} =>
              frame.sx = 4 /\ frame.sy = 4
        /\ frame.pc \in {"simplify", "filter", "returned"} =>
              Len(frame.path) > 1 /\ frame.cx = frame.sx /\ frame.cy = frame.sy
        /\ frame.pc = "returned" =>
              ~frame.result.isNull /\ Len(frame.result.pts) >= 3
        /\ OnloadDone =>
              /\ ~vertexCache[assets[1]].vertices.isNull
              /\ Piece.shape.why # "no vertices"
              /\ Piece.shape.kind = "polygon" =>
                    Len(Piece.shape.vertices) = Len(frame.result.pts)

C9_Witness ==
    /\ frame.img = Image(64, 64, {Block(4, 4, 59, 59, 255)})
    /\ OnloadDone
    /\ Piece.shape.kind = "polygon"
    /\ Len(frame.path) > 1

(* C10: simplification of a path P gives S with: S[1] = P[1] when P is not *)
(* empty and S empty when P is; S is the points of P at the indices K,     *)
(* where an index i > 1 is in K exactly when P[i] is more than 15 from the *)
(* last kept point before it; so |S| <= |P| and consecutive points of S    *)
(* are more than 15 apart.                                                 *)
C10_GreedyFilter ==
    frame.pc = "returned" =>
        LET P == frame.path
            S == frame.result.pts
        IN /\ ~frame.result.isNull
           /\ Len(S) <= Len(P)
           /\ (P = <<>>) => (S = <<>>)
           /\ (P # <<>>) => (S # <<>> /\ S[1] = P[1])
           /\ \A k \in 1..(Len(S) - 1) : DistSq(S[k], S[k + 1]) > 15 * 15
           /\ \E K \in SUBSET (1..Len(P)) :
                 /\ (P # <<>>) => (1 \in K)
                 /\ \A i \in 2..Len(P) :
                       (i \in K) <=>
                           DistSq(P[i], P[SetMax({j \in K : j < i})]) > 15 * 15
                 /\ Len(S) = Cardinality(K)
                 /\ \A k \in 1..Len(S) :
                       S[k] = P[CHOOSE i \in K : Cardinality({j \in K : j <= i}) = k]

(* A point dropped at distance exactly 15 and a later one kept *)
C10_Witness ==
    /\ frame.pc = "returned"
    /\ Len(frame.path) = 3
    /\ DistSq(frame.path[1], frame.path[2]) = 15 * 15
    /\ frame.result.pts = <<frame.path[1], frame.path[3]>>

(* The call has got past the seed search with a seed *)
SeedFound ==
    \/ frame.pc \in {"trace", "simplify", "filter"}
    \/ frame.pc = "returned" /\ ~frame.result.isNull

(* C11: the seed is the first solid sample in raster-scan order (rows top  *)
(* to bottom, each left to right) among the multiples of the sampling      *)
(* step: every grid sample before it is empty; and no seed is reported     *)
(* exactly when no grid sample is solid.                                   *)
C11_SeedIsFirstInRasterOrder ==
    /\ SeedFound =>
          /\ frame.sx % 4 = 0 /\ frame.sy % 4 = 0
          /\ SolidAt(frame.img, frame.sx, frame.sy)
          /\ \A c \in SolidSamples(frame.img) :
                c[2] > frame.sy \/ (c[2] = frame.sy /\ c[1] >= frame.sx)
    /\ frame.pc = "returned" => (frame.result.isNull <=> SolidSamples(frame.img) = {})

(* A seed found although a solid sample lies further left in a lower row *)
C11_Witness ==
    /\ SeedFound
    /\ \E c \in SolidSamples(frame.img) : c[1] < frame.sx /\ c[2] > frame.sy

(* p and q are one step apart along one axis *)
OneStepApart(p, q, step) == Abs(p.x - q.x) + Abs(p.y - q.y) = step

PathShape ==
    LET seed == Pt(frame.sx, frame.sy)
        n == Len(frame.path)
    IN /\ (SeedFound /\ n > 0) =>
             /\ frame.path[1] = seed
             /\ \A k \in 2..n : frame.path[k] # seed
             /\ \A k \in 1..(n - 1) : OneStepApart(frame.path[k], frame.path[k + 1], 4)
       /\ frame.pc = "trace" =>
             /\ n = 5000 - frame.maxIter
             /\ n = 0 => (frame.cx = frame.sx /\ frame.cy = frame.sy)
             /\ n > 0 => OneStepApart(frame.path[n], Pt(frame.cx, frame.cy), 4)
       /\ (frame.pc \in {"simplify", "filter", "returned"} /\ SeedFound) =>
             /\ n >= 1
             /\ (n > 1 /\ frame.cx = frame.sx /\ frame.cy = frame.sy) =>
                   OneStepApart(frame.path[n], seed, 4)

(* C12: the path starts with the seed and every loop iteration appends the *)
(* position it starts from, so the path length is the number of            *)
(* iterations and consecutive entries are one accepted step apart; the     *)
(* seed occurs once only, as the first entry, and when the trace closes    *)
(* the last entry is one sampling step from the seed.                      *)
C12_PathStructure ==
    /\ []PathShape
    /\ [][frame.pc = "trace" =>
            frame'.path = Append(frame.path, Pt(frame.cx, frame.cy))]_vars

(* A trace of four or more points that has closed at the seed *)
C12_Witness ==
    /\ frame.pc = "simplify"
    /\ Len(frame.path) >= 4
    /\ frame.cx = frame.sx /\ frame.cy = frame.sy

(* The collision shape of body b is the asset's image, or its contour,     *)
(* scaled by the factor b's sprite is drawn with                           *)
ScaleConsistent(b) ==
    LET img == AssetImage(b.sprite.texture)
        sc == b.sprite.xScale
        raw == GetVerticesFromImage(img, 4).pts
    IN /\ b.sprite.xScale = b.sprite.yScale
       /\ b.shape.kind \in {"rectangle", "polygon"}
       /\ b.shape.kind = "rectangle" =>
             /\ RatIs(b.shape.w, img.width * sc.num, sc.den)
             /\ RatIs(b.shape.h, img.height * sc.num, sc.den)
       /\ b.shape.kind = "polygon" =>
             /\ Len(b.shape.vertices) = Len(raw)
             /\ \A k \in 1..Len(raw) :
                   /\ RatIs(b.shape.vertices[k].x, raw[k].x * sc.num, sc.den)
                   /\ RatIs(b.shape.vertices[k].y, raw[k].y * sc.num, sc.den)

(* C13: every body createBody makes carries a sprite scale (xScale =       *)
(* yScale) equal to the factor its collision shape was scaled by, for the  *)
(* polygon and for the fallback rectangle, from a fresh cache entry or     *)
(* from one an earlier spawn stored.                                       *)
C13_SpriteScaleIsShapeScale ==
    [][currentBody' # currentBody => ScaleConsistent(bodies'[currentBody'])]_vars

(* Two polygon bodies of one asset in the world after a single extraction: *)
(* the later one was built from the cached entry                           *)
C13_Witness ==
    \E a \in world, b \in world :
        /\ a # b
        /\ bodies[a].label = "animal" /\ bodies[b].label = "animal"
        /\ bodies[a].sprite.texture = bodies[b].sprite.texture
        /\ bodies[a].shape.kind = "polygon"
        /\ hist.extractions[bodies[a].sprite.texture] = 1

(* The pixels inside the image *)
Pixels(img) == (0..(img.width - 1)) \X (0..(img.height - 1))

(* getVerticesFromImage has returned and onload has not yet gone on *)
JustReturned == frame.pc = "returned" /\ loads # {}

(* C14 as stated: a pixel inside the image is classified solid exactly     *)
(* when its alpha is at least 10, and empty when it is below 10.           *)
C14_SolidAtLeastThreshold ==
    JustReturned =>
        \A c \in Pixels(frame.img) :
            GetVal(frame.img, c[1], c[2]) = 1 <=> Alpha(frame.img, c[1], c[2]) >= 10

(* C14 amended: a pixel inside the image is classified solid exactly when  *)
(* its alpha is greater than 10 (11 or more), and empty when it is 10 or   *)
(* less.                                                                   *)
C14_SolidAboveThreshold ==
    JustReturned =>
        \A c \in Pixels(frame.img) :
            /\ GetVal(frame.img, c[1], c[2]) \in {0, 1}
            /\ GetVal(frame.img, c[1], c[2]) = 1 <=> Alpha(frame.img, c[1], c[2]) > 10

(* An image painted with alpha exactly 10 for which no seed was found *)
C14_Witness ==
    /\ JustReturned
    /\ frame.result.isNull
    /\ \E b \in frame.img.blocks : b.alpha = 10 /\ GetVal(frame.img, b.x0, b.y0) = 0

Inside(img, x, y) == x >= 0 /\ y >= 0 /\ x < img.width /\ y < img.height

(* The coordinates up to one sampling step around the image *)
Surround(img) == ((-4)..(img.width + 3)) \X ((-4)..(img.height + 3))

(* C15: every coordinate outside [0, width) x [0, height) is classified    *)
(* empty, with no wraparound into a neighbouring row; so the tracer never  *)
(* stands on, and the path never holds, a point outside the image.         *)
C15_OutsideIsEmpty ==
    /\ JustReturned =>
          \A c \in Surround(frame.img) :
              ~Inside(frame.img, c[1], c[2]) => GetVal(frame.img, c[1], c[2]) = 0
    /\ SeedFound =>
          /\ Inside(frame.img, frame.cx, frame.cy)
          /\ \A k \in 1..Len(frame.path) :
                Inside(frame.img, frame.path[k].x, frame.path[k].y)

(* The path holds a point whose right-hand candidate lies outside the      *)
(* image while the array slot that candidate's index would hit, in the     *)
(* next row, is solid                                                      *)
C15_Witness ==
    /\ JustReturned
    /\ \E k \in 1..Len(frame.path) :
          /\ frame.path[k].x + 4 >= frame.img.width
          /\ SolidAt(frame.img, frame.path[k].x + 4 - frame.img.width, frame.path[k].y + 1)

(* How many entries of the sequence s are v *)
Count(s, v) == Cardinality({k \in 1..Len(s) : s[k] = v})

RankedScores == [k \in 1..Len(ranking) |-> ranking[k].score]

(* C16: after any sequence of saveScore calls from an empty stored         *)
(* ranking, the stored list has at most 5 entries, is in non-increasing    *)
(* order of score, and holds the 5 highest scores saved so far (all of     *)
(* them while fewer than 5 were saved).                                    *)
C16_RankingTopFive ==
    /\ Len(ranking) <= 5
    /\ Len(ranking) = Min2(5, Len(hist.saved))
    /\ \A k \in 1..(Len(ranking) - 1) : ranking[k].score >= ranking[k + 1].score
    /\ \A v \in 0..SetMax({0} \cup {hist.saved[k] : k \in 1..Len(hist.saved)}) :
          /\ Count(RankedScores, v) <= Count(hist.saved, v)
          /\ Count(RankedScores, v) < Count(hist.saved, v) =>
                \A k \in 1..Len(ranking) : ranking[k].score >= v

(* Six scores saved, a lower one pushed out of the five kept *)
C16_Witness ==
    /\ Len(hist.saved) = 6
    /\ Len(ranking) = 5
    /\ \E k \in 1..6 : hist.saved[k] < ranking[5].score

(* A step of one of the four input listeners *)
InputStep ==
    \/ \E x \in ClientXs : MouseMove(x)
    \/ \E t \in ClickTargets : Click(t)
    \/ ContextMenu
    \/ \E c \in KeyCodes : KeyDown(c)

InputRefused == ~gameStarted \/ gameOver \/ currentBody = null \/ isDropping

(* The step leaves the animal body b in place and makes it dynamic *)
Released(b) ==
    /\ b \in DOMAIN bodies /\ b \in DOMAIN bodies'
    /\ bodies[b].label = "animal"
    /\ bodies'[b].game = bodies[b].game
    /\ bodies[b].isStatic /\ ~bodies'[b].isStatic

(* C17: a drop, move or rotate input changes nothing when the game has not *)
(* started, is over, has no current body, or the current piece is already  *)
(* released; a piece once released is never static (releasable) again, a   *)
(* release is of the held current piece, and the landing timers grow by    *)
(* exactly one with each release and never otherwise.                      *)
C17_InputGuards ==
    [][/\ (InputRefused /\ InputStep) => UNCHANGED vars
       /\ \A b \in DOMAIN bodies :
             /\ Released(b) =>
                   /\ b = currentBody /\ ~isDropping /\ isDropping'
                   /\ gameStarted /\ ~gameOver
                   /\ Len(timers') = Len(timers) + 1
             /\ (b \in DOMAIN bodies' /\ bodies[b].label = "animal"
                   /\ bodies'[b].game = bodies[b].game /\ ~bodies[b].isStatic)
                => ~bodies'[b].isStatic
       /\ Len(timers') > Len(timers) =>
             /\ Len(timers') = Len(timers) + 1
             /\ \E b \in DOMAIN bodies : Released(b)]_vars

(* A released piece in a live game, its landing timer pending *)
C17_Witness ==
    /\ gameStarted /\ ~gameOver /\ isDropping
    /\ currentBody # null
    /\ ~bodies[currentBody].isStatic
    /\ Len(timers) = 1

(* C18: while gameOver is true the score and the displayed final score do  *)
(* not change: a landing timer that fires then neither counts nor spawns;  *)
(* the game-over screen is only shown in game over with the final score    *)
(* equal to the score, so every score saveScore writes is the final score  *)
(* on display.                                                             *)
C18_ScoreFrozenInGameOver ==
    /\ [](ui.gameOverContent => (gameOver /\ ui.finalScore = score))
    /\ [][/\ (gameOver /\ gameOver') => (score' = score /\ ui'.finalScore = ui.finalScore)
          /\ (gameOver /\ timers # <<>> /\ timers' = Tail(timers)) =>
                /\ score' = score
                /\ ui' = ui
                /\ world' = world /\ loads' = loads /\ bodies' = bodies
                /\ currentBody' = currentBody
          /\ hist'.saved # hist.saved =>
                /\ gameOver /\ gameOver'
                /\ hist'.saved = Append(hist.saved, ui.finalScore)
                /\ \E k \in 1..Len(ranking') : ranking'[k].score = ui.finalScore]_vars

(* A score of at least one saved in game over while a landing timer is     *)
(* still pending                                                           *)
C18_Witness ==
    /\ gameOver
    /\ timers # <<>>
    /\ score >= 1
    /\ hist.saved # <<>>
    /\ hist.saved[Len(hist.saved)] = ui.finalScore

(* In the heap bs, b is an animal of the world below the play field that   *)
(* is not the held, unreleased current piece                               *)
Fallen(bs, b) ==
    /\ b \in world
    /\ bs[b].label = "animal"
    /\ bs[b].y > 600 + 50
    /\ (b # currentBody \/ isDropping)

(* C19: game over is entered only in a started, not yet over game in which *)
(* an animal body other than the held current piece is below height + 50   *)
(* (never because of the held piece or the ground alone); and no such body *)
(* outlives an engine update of a live game: game over is set by the       *)
(* update that finds it.                                                   *)
C19_GameOverTrigger ==
    /\ [][(~gameOver /\ gameOver') =>
            /\ gameStarted
            /\ \E b \in world : Fallen(bodies', b)]_vars
    /\ []((gameStarted /\ ~gameOver) => ~\E b \in world : Fallen(bodies, b))

(* Game over by a dropped piece, with the next piece held and the ground   *)
(* itself below height + 50                                                *)
C19_Witness ==
    /\ gameOver
    /\ bodies[1].y > 600 + 50
    /\ currentBody \in world /\ ~isDropping
    /\ \E b \in world : Fallen(bodies, b)

(* The (position, movement direction) pairs the walk of frame f has been   *)
(* in after a move: each path entry after the first with the move that led *)
(* to it, and the current position with the last move                      *)
Arrivals(f) ==
    LET n == Len(f.path)
        ends == [k \in 1..n |-> IF k < n THEN f.path[k + 1] ELSE Pt(f.cx, f.cy)]
    IN [k \in 1..n |-> <<ends[k], ends[k].x - f.path[k].x, ends[k].y - f.path[k].y>>]

AcceptedSteps(f) == IF Len(f.path) = 1 /\ SeedIsolated(f) THEN 0 ELSE Len(f.path)

(* C20: the walk is never twice at the same position with the same         *)
(* movement direction; unless the seed is isolated it is back at the seed  *)
(* within 4 x (number of solid grid samples) accepted steps, or else that  *)
(* many steps exceed the budget of 5000.                                   *)
C20_WalkDoesNotCycle ==
    (frame.pc = "returned" /\ SeedFound) =>
        LET solid == Cardinality(SolidSamples(frame.img))
            arr == Arrivals(frame)
        IN /\ SeedIsolated(frame) => Len(frame.path) = 1
           /\ ~SeedIsolated(frame) =>
                 /\ Cardinality({arr[k] : k \in 1..Len(arr)}) = Len(arr)
                 /\ \A k \in 1..Len(arr) : <<arr[k][2], arr[k][3]>> # <<0, 0>>
                 /\ AcceptedSteps(frame) <= 4 * solid
                 /\ \/ frame.cx = frame.sx /\ frame.cy = frame.sy
                    \/ AcceptedSteps(frame) = 5000 /\ 4 * solid > 5000

(* A closed walk that came through one position twice, in different        *)
(* directions                                                              *)
C20_Witness ==
    /\ frame.pc = "returned" /\ SeedFound
    /\ frame.cx = frame.sx /\ frame.cy = frame.sy
    /\ \E i \in 1..Len(frame.path), j \in 1..Len(frame.path) :
          i < j /\ j <= 12 /\ frame.path[i] = frame.path[j]

(* p is a sample of the grid of step 4 that lies inside img and is solid *)
OnSolidGrid(img, p) ==
    /\ p.x % 4 = 0 /\ p.y % 4 = 0
    /\ SolidAt(img, p.x, p.y)

(* q is reached from p by changing exactly one coordinate, by exactly 4 *)
AxisStep(p, q) ==
    \/ p.y = q.y /\ Abs(p.x - q.x) = 4
    \/ p.x = q.x /\ Abs(p.y - q.y) = 4

(* C21: every point of the traced path (and the position the trace is at)  *)
(* is a solid sample inside the image with both coordinates multiples of   *)
(* the sampling step, and two consecutive path points differ by exactly    *)
(* one sampling step along exactly one axis: no diagonal, no longer jump,  *)
(* no repeated point.                                                      *)
C21_PathOnSolidGrid ==
    SeedFound =>
        LET n == Len(frame.path)
        IN /\ \A k \in 1..n : OnSolidGrid(frame.img, frame.path[k])
           /\ \A k \in 1..(n - 1) : AxisStep(frame.path[k], frame.path[k + 1])
           /\ OnSolidGrid(frame.img, Pt(frame.cx, frame.cy))
           /\ (frame.pc = "trace" /\ n > 0) => AxisStep(frame.path[n], Pt(frame.cx, frame.cy))

(* A finished trace of four or more points that moved along both axes, in  *)
(* an image with an empty grid sample next to a path point                 *)
C21_Witness ==
    /\ frame.pc = "simplify"
    /\ Len(frame.path) >= 4
    /\ \E i, j \in 1..Len(frame.path) :
          frame.path[i].x # frame.path[j].x /\ frame.path[i].y # frame.path[j].y
    /\ \E k \in 1..Len(frame.path) :
          /\ frame.path[k].x + 4 < frame.img.width
          /\ ~SolidAt(frame.img, frame.path[k].x + 4, frame.path[k].y)

(* The animal bodies of the world that have not been released: created    *)
(* static by createBody and not yet set free by a click                    *)
Unreleased == {b \in Animals(world) : bodies[b].isStatic}

(* The step runs a landing timer, or completes a load, of an earlier game *)
EarlierGameCallback ==
    \/ timers # <<>> /\ timers' = Tail(timers) /\ Head(timers).game < hist.games
    \/ \E l \in loads : l \notin loads' /\ l.game < hist.games

(* C22: whatever the sequence of start, drop, landing-timer, load          *)
(* completion, game-over and restart events, the world holds at most one   *)
(* unreleased animal body, and that body is currentBody; and a landing     *)
(* timer or image load started in an earlier game adds no body to the      *)
(* world of a later game.                                                  *)
C22_OneUnreleasedPiece ==
    /\ [](Cardinality(Unreleased) <= 1 /\ Unreleased \subseteq {currentBody})
    /\ [][EarlierGameCallback => world' \subseteq world]_vars

(* The step runs the landing timer at the head of the queue (a click only  *)
(* appends to it)                                                          *)
LandingTimerRuns == timers # <<>> /\ timers' = Tail(timers)

(* The landing timer that runs belongs to a piece released since the most  *)
(* recent startGame                                                        *)
OfCurrentGame == Head(timers).game = hist.games

(* C23: score counts the pieces released since the most recent startGame   *)
(* whose landing timer has fired in the live game: startGame sets it to 0, *)
(* each such timer adds one, and nothing else changes it; so score never   *)
(* exceeds the drop clicks accepted in the current game, and a landing     *)
(* timer scheduled before the most recent startGame never increments it.   *)
C23_ScoreCountsLandings ==
    [][/\ score' # score =>
             \/ score' = 0 /\ hist'.games = hist.games + 1
             \/ LandingTimerRuns /\ OfCurrentGame /\ score' = score + 1
       /\ (LandingTimerRuns /\ OfCurrentGame /\ gameStarted /\ ~gameOver) => score' = score + 1
       /\ (LandingTimerRuns /\ ~OfCurrentGame) => score' = score]_vars

(* b is an animal body created before the most recent startGame *)
LeftOver(b) ==
    /\ b \in DOMAIN bodies
    /\ bodies[b].label = "animal"
    /\ bodies[b].game < hist.games

(* createBody has made a piece since the most recent startGame *)
FirstPieceCreated ==
    \E b \in DOMAIN bodies : bodies[b].label = "animal" /\ bodies[b].game = hist.games

(* C24: after startGame no move, rotate or drop input has any effect until *)
(* createBody has made the new game's first piece; and an input never      *)
(* moves, rotates or releases a body left over from a previous game, nor   *)
(* starts a landing timer for one.                                         *)
C24_NoInputOnLeftOver ==
    [][InputStep =>
          /\ (gameStarted /\ ~FirstPieceCreated) => UNCHANGED vars
          /\ \A b \in DOMAIN bodies : LeftOver(b) => bodies'[b] = bodies[b]
          /\ Len(timers') > Len(timers) => ~LeftOver(currentBody)]_vars

====
